---- MODULE Spec2Model ----
(***************************************************************************)
(* Model of the Mood Mirror script (src/main.py).                          *)
(*                                                                         *)
(* The script is re-executed from top to bottom on every user interaction. *)
(* One execution is one step of the model.  The persistent state is the    *)
(* file mood_log.csv and the wall clock; everything else lives for one     *)
(* execution and is recorded in `run` so that properties can speak about   *)
(* what the execution did.                                                 *)
(*                                                                         *)
(* A text (a Python str) is held as the sequence of its chunks: the        *)
(* maximal runs of characters of one class (whitespace, word characters,   *)
(* anything else), each chunk a non-empty sequence of one-character        *)
(* strings.  Every str has exactly one such chunking, so text equality is  *)
(* equality of chunk sequences.  The CSV file is a sequence of rows whose  *)
(* cells hold the text written to the file; reading it back goes through   *)
(* pandas' column type inference (ReadCsv) and writing goes through its    *)
(* value formatting (ToCsv).                                               *)
(***************************************************************************)
EXTENDS Integers, Sequences, FiniteSets, TLC

VARIABLES file_exists, mood_log, now, run

vars == <<file_exists, mood_log, now, run>>

----------------------------------------------------------------------------
(* Bounds of the model.                                                    *)

\* Rows the log may hold before the model stops analysing.
MaxLog == 2

\* Last calendar day the clock may reach (days are numbered from 0).
MaxDay == 8

\* Clock ticks per calendar day: tick 0 of a day is midnight exactly.
TicksPerDay == 2

----------------------------------------------------------------------------
(* Program constants.                                                      *)

MinWords == 50
DailyMaxChars == 1024
WeeklyMaxChars == 2048
WeekDays == 7
TopN == 10

----------------------------------------------------------------------------
(* Optional values: a local that may be unbound, a section that may not    *)
(* have been produced.                                                     *)

None == <<>>
Some(x) == <<x>>
IsSome(o) == Len(o) = 1
Get(o) == o[1]

----------------------------------------------------------------------------
(* Characters, texts and the str methods the script uses.                  *)

SpaceChars == {" ", "\n", "\t"}
DigitChars == {"0", "1", "2", "3", "4", "5", "6", "7", "8", "9"}
UpperChars == {"A", "N", "T"}
LowerChars == {"a", "b", "c", "d", "e", "f", "g", "h", "i", "j", "k", "l",
               "n", "r", "s", "t"}

\* str.isspace() of one character
IsSpace(c) == c \in SpaceChars

\* \w of the re module
IsWordChar(c) == c \in DigitChars \cup UpperChars \cup LowerChars \cup {"_"}

CharClass(c) ==
    IF IsSpace(c) THEN "space" ELSE IF IsWordChar(c) THEN "word" ELSE "other"

\* The class of a chunk is the class of its characters.
ChunkClass(chunk) == CharClass(chunk[1])

\* a + b
Concat(a, b) ==
    IF Len(a) = 0 THEN b
    ELSE IF Len(b) = 0 THEN a
    ELSE IF ChunkClass(a[Len(a)]) = ChunkClass(b[1])
         THEN SubSeq(a, 1, Len(a) - 1) \o <<a[Len(a)] \o b[1]>> \o Tail(b)
    ELSE a \o b

\* The text of a sequence of characters.
RECURSIVE Text(_)
Text(chars) ==
    IF Len(chars) = 0 THEN <<>>
    ELSE Concat(<<<<chars[1]>>>>, Text(Tail(chars)))

RECURSIVE RangeLen(_, _, _)
\* The number of characters in chunks lo..hi of s (by halves, to keep the
\* evaluation shallow on long texts)
RangeLen(s, lo, hi) ==
    IF lo > hi THEN 0
    ELSE IF lo = hi THEN Len(s[lo])
    ELSE LET mid == (lo + hi) \div 2
         IN  RangeLen(s, lo, mid) + RangeLen(s, mid + 1, hi)

\* len(s)
StrLen(s) == RangeLen(s, 1, Len(s))

\* str.lower() on one character
LowerChar(c) ==
    CASE c = "A" -> "a"
      [] c = "N" -> "n"
      [] c = "T" -> "t"
      [] OTHER -> c

\* str.lower(): case folding keeps each character's class
Lower(s) ==
    [k \in 1..Len(s) |-> [i \in 1..Len(s[k]) |-> LowerChar(s[k][i])]]

\* str.strip(): leading and trailing whitespace removed
Strip(s) ==
    LET lo == IF Len(s) > 0 /\ ChunkClass(s[1]) = "space" THEN 2 ELSE 1
        hi == IF Len(s) > 0 /\ ChunkClass(s[Len(s)]) = "space"
              THEN Len(s) - 1 ELSE Len(s)
    IN  SubSeq(s, lo, hi)

\* len(s.split()): the number of maximal runs of non-whitespace characters
SplitLen(s) ==
    Cardinality({k \in 1..Len(s) :
                    /\ ChunkClass(s[k]) # "space"
                    /\ (k = 1 \/ ChunkClass(s[k - 1]) = "space")})

RECURSIVE RangeSlice(_, _, _, _)
\* The first n characters of chunks lo..hi of s (by halves)
RangeSlice(s, lo, hi, n) ==
    IF lo > hi \/ n <= 0 THEN <<>>
    ELSE IF lo = hi
         THEN <<SubSeq(s[lo], 1, IF Len(s[lo]) < n THEN Len(s[lo]) ELSE n)>>
    ELSE LET mid  == (lo + hi) \div 2
             left == RangeLen(s, lo, mid)
         IN  IF left >= n THEN RangeSlice(s, lo, mid, n)
             ELSE SubSeq(s, lo, mid) \o RangeSlice(s, mid + 1, hi, n - left)

\* s[:n]
Slice(s, n) == RangeSlice(s, 1, Len(s), n)

RECURSIVE Join(_, _)
\* sep.join(texts)
Join(sep, texts) ==
    IF Len(texts) = 0 THEN <<>>
    ELSE IF Len(texts) = 1 THEN texts[1]
    ELSE Concat(Concat(texts[1], sep), Join(sep, Tail(texts)))

----------------------------------------------------------------------------
(* The clock and the date column.                                          *)

\* datetime.strftime("%Y-%m-%d"): the calendar day, the time of day dropped
Strftime(t) == t \div TicksPerDay

\* pd.to_datetime of a "%Y-%m-%d" string: midnight of that day
ToDatetime(date) == date * TicksPerDay

\* timedelta(days=n)
Timedelta(days) == days * TicksPerDay

----------------------------------------------------------------------------
(* pandas: reading and writing the text column of mood_log.csv.            *)
(* read_csv infers one dtype per column; to_csv formats each value by its  *)
(* Python type.  A parsed value is a record tagged by its type.  The input *)
(* sets hold no signed, fractional or space-padded numerals, so the only   *)
(* numerals a file can hold are runs of digits and the "<digits>.0" that   *)
(* to_csv writes for a float.                                              *)

Digits == <<"0", "1", "2", "3", "4", "5", "6", "7", "8", "9">>

\* read_csv's default na_values, restricted to the model's characters
NaValues == {<<>>, <<<<"N", "A">>>>}

IsNA(cell) == cell \in NaValues

IsIntLiteral(cell) ==
    /\ Len(cell) = 1
    /\ \A i \in 1..Len(cell[1]) : cell[1][i] \in DigitChars

\* "<digits>.0...": a float literal with an integral value
IsFloatLiteral(cell) ==
    /\ Len(cell) = 3
    /\ \A i \in 1..Len(cell[1]) : cell[1][i] \in DigitChars
    /\ cell[2] = <<".">>
    /\ \A i \in 1..Len(cell[3]) : cell[3][i] = "0"

DigitVal(c) == (CHOOSE i \in 1..10 : Digits[i] = c) - 1

RECURSIVE ParseDigits(_)
ParseDigits(digits) ==
    IF Len(digits) = 0 THEN 0
    ELSE 10 * ParseDigits(SubSeq(digits, 1, Len(digits) - 1))
         + DigitVal(digits[Len(digits)])

\* The value of an integer literal, or of a float literal with an integral
\* value
ParseNumber(cell) == ParseDigits(cell[1])

RECURSIVE FormatDigits(_)
FormatDigits(n) ==
    IF n < 10 THEN <<Digits[n + 1]>>
    ELSE FormatDigits(n \div 10) \o <<Digits[(n % 10) + 1]>>

\* str(n) for an int n >= 0
FormatInt(n) == <<FormatDigits(n)>>

\* repr(x) for a float x >= 0 with an integral value: "7.0"
FormatFloat(n) == <<FormatDigits(n), <<".">>, <<"0">>>>

\* The dtype read_csv gives a column holding these cells.
InferDtype(cells) ==
    LET present == {i \in 1..Len(cells) : ~IsNA(cells[i])}
    IN  IF \E i \in present : ~(IsIntLiteral(cells[i]) \/ IsFloatLiteral(cells[i]))
        THEN "object"
        ELSE IF present = 1..Len(cells) /\ \A i \in present : IsIntLiteral(cells[i])
        THEN "int64"
        ELSE "float64"

\* One cell of a column of the given dtype, as the value read_csv yields.
ParseCell(dtype, cell) ==
    IF IsNA(cell) THEN [t |-> "nan"]
    ELSE IF dtype = "int64" THEN [t |-> "int", n |-> ParseNumber(cell)]
    ELSE IF dtype = "float64" THEN [t |-> "float", n |-> ParseNumber(cell)]
    ELSE [t |-> "str", s |-> cell]

\* A Python str held in a DataFrame
StrValue(s) == [t |-> "str", s |-> s]

IsStr(v) == v.t = "str"

\* to_csv's rendering of one value (na_rep is the empty string)
FormatValue(v) ==
    IF v.t = "nan" THEN <<>>
    ELSE IF v.t = "int" THEN FormatInt(v.n)
    ELSE IF v.t = "float" THEN FormatFloat(v.n)
    ELSE v.s

\* pd.read_csv("mood_log.csv"): the rows with the text column parsed
ReadCsv(rows) ==
    LET dtype == InferDtype([i \in 1..Len(rows) |-> rows[i].text])
    IN  [i \in 1..Len(rows) |->
            [rows[i] EXCEPT !.text = ParseCell(dtype, rows[i].text)]]

\* DataFrame.to_csv("mood_log.csv", index=False): the rows as written
ToCsv(df) ==
    [i \in 1..Len(df) |-> [df[i] EXCEPT !.text = FormatValue(df[i].text)]]

----------------------------------------------------------------------------
(* Mood analysis (the "Analyze My Mood" branch).                           *)

\* What a classifier pipeline call can do: raise (no label, no score), or
\* return a label and a score (in thousandths).
Raise == [ok |-> FALSE, label |-> "", score |-> 0]
Result(label, score) == [ok |-> TRUE, label |-> label, score |-> score]
SentimentOutcomes == {Raise, Result("POSITIVE", 998)}
EmotionOutcomes == {Raise, Result("joy", 912)}

\* round(score, 2), in hundredths; the scores drawn are not half-way cases
Round2(score) == (score + 5) \div 10

\* Faulty variant of IsBlank: the input compared without strip().
IsEmpty(user_input) == user_input = <<>>

\* user_input.strip() == ""
IsBlank(user_input) == Strip(user_input) = <<>>

\* Faulty variant of ClassifierRaised: an exception of the emotion call is
\* swallowed, so the save still runs.
SentimentRaised(sentiment, emotion) == ~sentiment.ok

\* An exception of either classifier call leaves the branch before the save.
ClassifierRaised(sentiment, emotion) == ~sentiment.ok \/ ~emotion.ok

\* The classifier calls made, each with whether it returned: the emotion
\* call follows a sentiment call that returned.
ClassifierCalls(sentiment, emotion) ==
    IF sentiment.ok
    THEN <<[call |-> "sentiment", ok |-> TRUE],
           [call |-> "emotion", ok |-> emotion.ok]>>
    ELSE <<[call |-> "sentiment", ok |-> FALSE]>>

\* mood_data
MoodData(user_input, sentiment, emotion, t) ==
    [date            |-> Strftime(t),
     text            |-> user_input,
     emotion         |-> emotion.label,
     emotion_score   |-> Round2(emotion.score),
     sentiment       |-> sentiment.label,
     sentiment_score |-> Round2(sentiment.score)]

\* pd.DataFrame([mood_data])
DataFrame(mood_data) ==
    <<[mood_data EXCEPT !.text = StrValue(mood_data.text)]>>

\* Faulty variant of SaveEntry: the file is overwritten with the new row.
SaveEntryOverwrite(exists, rows, mood_data) == ToCsv(DataFrame(mood_data))

\* Save entry: the rows of mood_log.csv after the write
SaveEntry(exists, rows, mood_data) ==
    IF ~exists THEN ToCsv(DataFrame(mood_data))
    ELSE ToCsv(ReadCsv(rows) \o DataFrame(mood_data))

\* The branch past the input check, for one outcome of the classifier calls
Analyse(exists, rows, user_input, sentiment, emotion, t) ==
    IF ClassifierRaised(sentiment, emotion)
    THEN [exists |-> exists, rows |-> rows, warned |-> FALSE,
          classifier_calls |-> ClassifierCalls(sentiment, emotion),
          error |-> "classifier"]
    ELSE [exists |-> TRUE,
          rows |-> SaveEntry(exists, rows,
                       MoodData(user_input, sentiment, emotion, t)),
          warned |-> FALSE,
          classifier_calls |-> ClassifierCalls(sentiment, emotion),
          error |-> "none"]

\* The whole branch: every way it can end, each with what it leaves in the
\* file and what it reports.
MoodAnalysis(exists, rows, pressed, user_input, t) ==
    LET idle == [exists |-> exists, rows |-> rows, warned |-> FALSE,
                 classifier_calls |-> <<>>, error |-> "none"]
    IN  IF ~pressed THEN {idle}
        ELSE IF IsBlank(user_input) THEN {[idle EXCEPT !.warned = TRUE]}
        ELSE {Analyse(exists, rows, user_input, sentiment, emotion, t) :
                 sentiment \in SentimentOutcomes, emotion \in EmotionOutcomes}

----------------------------------------------------------------------------
(* Show mood history: the daily summary.                                   *)

\* The row numbers of df, in order (its index)
Index(df) == [i \in 1..Len(df) |-> i]

\* df[...]['text'].tolist()
TextList(df, idx) == [k \in 1..Len(idx) |-> df[idx[k]].text]

\* " ".join raises TypeError on an item that is not a str.
JoinRaises(values) == \E k \in 1..Len(values) : ~IsStr(values[k])

\* " ".join(values), every value a str
JoinTexts(values) ==
    Join(<<<<" ">>>>, [k \in 1..Len(values) |-> values[k].s])

\* What a summarizer pipeline call can do: raise, or return a summary text.
SummarizerRaise == "raise"
Summaries == {"summary 1", "summary 2"}
SummarizerOutcomes == {SummarizerRaise} \cup Summaries

\* df[df['date'] == today]: the rows dated today
TodayRows(df, t) ==
    SelectSeq(Index(df),
              LAMBDA i : ToDatetime(df[i].date) = ToDatetime(Strftime(t)))

\* len(full_text.split()) > 50
DailyEligible(full_text) == SplitLen(full_text) > MinWords

\* full_text[:1024]
DailyInput(full_text) == Slice(full_text, DailyMaxChars)

\* summary = summarizer(full_text[:1024])[0]['summary_text'], for one
\* outcome of the call
DailyCall(base, full_text, outcome) ==
    IF outcome = SummarizerRaise
    THEN [base EXCEPT
            !.full_text = Some(full_text),
            !.daily_calls = <<[input |-> DailyInput(full_text),
                               outcome |-> outcome]>>,
            !.error = "summarizer"]
    ELSE [base EXCEPT
            !.full_text = Some(full_text),
            !.daily_calls = <<[input |-> DailyInput(full_text),
                               outcome |-> outcome]>>,
            !.summary = Some(outcome)]

\* The daily summary section, every way it can end: the rows selected, the
\* joined text, the summarizer calls made, the local `summary` and the
\* exception, if any.
DailySummary(df, t) ==
    LET today_idx     == TodayRows(df, t)
        today_entries == TextList(df, today_idx)
        full_text     == JoinTexts(today_entries)
        base == [today_idx |-> Some(today_idx), full_text |-> None,
                 daily_calls |-> <<>>, summary |-> None, error |-> "none"]
    IN  IF today_entries = <<>> THEN {base}
        ELSE IF JoinRaises(today_entries)
             THEN {[base EXCEPT !.error = "TypeError"]}
        ELSE IF ~DailyEligible(full_text)
             THEN {[base EXCEPT !.full_text = Some(full_text)]}
        ELSE {DailyCall(base, full_text, outcome) :
                 outcome \in SummarizerOutcomes}

----------------------------------------------------------------------------
(* Most used words.                                                        *)

\* re.findall(r'\b\w+\b', s): the maximal runs of word characters, in order
FindAllWords(s) == SelectSeq(s, LAMBDA chunk : ChunkClass(chunk) = "word")

\* Counter(words): a dict, so the distinct words in order of first
\* insertion, each with its number of occurrences
Counter(words) ==
    LET firsts == SelectSeq([k \in 1..Len(words) |-> k],
                      LAMBDA k : \A j \in 1..(k - 1) : words[j] # words[k])
    IN  [m \in 1..Len(firsts) |->
            <<words[firsts[m]],
              Cardinality({k \in 1..Len(words) : words[k] = words[firsts[m]]})>>]

\* Faulty variant of Before: among equal counts the word seen last comes
\* first.
BeforeLastSeen(items, i, j) ==
    \/ items[i][2] > items[j][2]
    \/ (items[i][2] = items[j][2] /\ i > j)

\* Whether item i comes before item j in most_common's result:
\* heapq.nlargest is sorted(items, key=count, reverse=True)[:n], and the
\* sort is stable.
Before(items, i, j) ==
    \/ items[i][2] > items[j][2]
    \/ (items[i][2] = items[j][2] /\ i < j)

\* Counter.most_common(n)
MostCommon(items, n) ==
    LET Rank(i) == 1 + Cardinality({j \in 1..Len(items) : Before(items, j, i)})
        size == IF Len(items) < n THEN Len(items) ELSE n
    IN  [r \in 1..size |-> items[CHOOSE i \in 1..Len(items) : Rank(i) = r]]

\* common_words
CommonWords(full_week_text) ==
    MostCommon(Counter(FindAllWords(Lower(full_week_text))), TopN)

----------------------------------------------------------------------------
(* Show mood history: the weekly summary, the words, the journal, the      *)
(* mail.                                                                   *)

\* week_ago
WeekAgo(t) == t - Timedelta(WeekDays)

\* df[df['date'] >= week_ago]: the rows of the trailing week
WeeklyRows(df, t) ==
    SelectSeq(Index(df), LAMBDA i : ToDatetime(df[i].date) >= WeekAgo(t))

\* Faulty variant of WeeklyEligible: the gate opens at 50 words.
WeeklyEligibleFromMin(full_week_text) == SplitLen(full_week_text) >= MinWords

\* len(full_week_text.split()) > 50
WeeklyEligible(full_week_text) == SplitLen(full_week_text) > MinWords

\* full_week_text[:2048]
WeeklyInput(full_week_text) == Slice(full_week_text, WeeklyMaxChars)

\* Faulty variant of WeeklyBinding: a `summary` the daily section bound is
\* not rebound.
WeeklyBindingKeepsDaily(summary, eligible, outcome) ==
    IF eligible /\ ~IsSome(summary) THEN Some(outcome) ELSE summary

\* The local `summary` after the weekly gate: rebound by a weekly summary,
\* otherwise what the daily section left (unbound if it left nothing).
WeeklyBinding(summary, eligible, outcome) ==
    IF eligible THEN Some(outcome) ELSE summary

\* journal_text: the f-string reads `summary`; the three values it renders
JournalText(summary, common_words, weekly_entries) ==
    [summary |-> Get(summary),
     words   |-> common_words,
     entries |-> [k \in 1..Len(weekly_entries) |-> weekly_entries[k].s]]

\* Evaluating journal_text raises NameError while `summary` is unbound.
JournalRaises(summary) == ~IsSome(summary)

\* The email form: a send is tried when the form was submitted with a
\* recipient; it goes through or fails, and a failure is caught and
\* reported.
SendMail(submitted, recipient) ==
    IF submitted /\ recipient # <<>> THEN {"sent", "failed"} ELSE {"none"}

\* The weekly section past the join, for one outcome of the summarizer call
\* (made only if the text is eligible) and one of the mail.
WeeklyReport(base, weekly_entries, full_week_text, summary, outcome, mail) ==
    LET eligible == WeeklyEligible(full_week_text)
        calls == IF eligible
                 THEN <<[input |-> WeeklyInput(full_week_text),
                         outcome |-> outcome]>>
                 ELSE <<>>
        bound == WeeklyBinding(summary, eligible, outcome)
        common_words == CommonWords(full_week_text)
    IN  IF eligible /\ outcome = SummarizerRaise
        THEN [base EXCEPT
                !.full_week_text = Some(full_week_text),
                !.weekly_calls = calls,
                !.error = "summarizer"]
        ELSE IF JournalRaises(bound)
        THEN [base EXCEPT
                !.full_week_text = Some(full_week_text),
                !.weekly_calls = calls,
                !.common_words = Some(common_words),
                !.chart = TRUE,
                !.error = "NameError"]
        ELSE [base EXCEPT
                !.full_week_text = Some(full_week_text),
                !.weekly_calls = calls,
                !.summary = bound,
                !.common_words = Some(common_words),
                !.chart = TRUE,
                !.journal = Some(JournalText(bound, common_words, weekly_entries)),
                !.mail = mail]

\* The weekly section, entered with the local `summary` as the daily
\* section left it: every way it can end.
WeeklySummary(df, t, summary, submitted, recipient) ==
    LET weekly_idx     == WeeklyRows(df, t)
        weekly_entries == TextList(df, weekly_idx)
        full_week_text == JoinTexts(weekly_entries)
        base == [weekly_idx |-> Some(weekly_idx), full_week_text |-> None,
                 weekly_calls |-> <<>>, summary |-> summary,
                 common_words |-> None, chart |-> FALSE, journal |-> None,
                 mail |-> "none", error |-> "none"]
    IN  IF weekly_entries = <<>> THEN {base}
        ELSE IF JoinRaises(weekly_entries)
             THEN {[base EXCEPT !.error = "TypeError"]}
        ELSE {WeeklyReport(base, weekly_entries, full_week_text, summary,
                           outcome, mail) :
                 outcome \in SummarizerOutcomes,
                 mail \in SendMail(submitted, recipient)}

\* What a run that never reaches the history section reports of it.
NoHistory ==
    [today_idx |-> None, full_text |-> None, daily_calls |-> <<>>,
     weekly_idx |-> None, full_week_text |-> None, weekly_calls |-> <<>>,
     summary |-> None, common_words |-> None, chart |-> FALSE,
     journal |-> None, mail |-> "none", error |-> "none"]

\* The history section from the daily summary on, given how the daily
\* summary ended: an exception there ends the run.
AfterDaily(df, t, d, submitted, recipient) ==
    IF d.error # "none"
    THEN {[NoHistory EXCEPT
             !.today_idx = d.today_idx, !.full_text = d.full_text,
             !.daily_calls = d.daily_calls, !.error = d.error]}
    ELSE {[today_idx |-> d.today_idx, full_text |-> d.full_text,
           daily_calls |-> d.daily_calls,
           weekly_idx |-> w.weekly_idx, full_week_text |-> w.full_week_text,
           weekly_calls |-> w.weekly_calls, summary |-> w.summary,
           common_words |-> w.common_words, chart |-> w.chart,
           journal |-> w.journal, mail |-> w.mail, error |-> w.error] :
             w \in WeeklySummary(df, t, d.summary, submitted, recipient)}

\* if os.path.exists("mood_log.csv"): the whole history section, every way
\* it can end
ShowHistory(exists, rows, t, submitted, recipient) ==
    IF ~exists THEN {NoHistory}
    ELSE LET df == ReadCsv(rows)
         IN  UNION {AfterDaily(df, t, d, submitted, recipient) :
                       d \in DailySummary(df, t)}

----------------------------------------------------------------------------
(* One execution of the script.                                            *)

\* A run's record: what was pressed and typed, the clock and the file as
\* the run found them, and what each section did.
RunRecord(button, user_input, t, exists, rows, a, h) ==
    [button           |-> button,
     user_input       |-> user_input,
     t                |-> t,
     exists_before    |-> exists,
     rows_before      |-> rows,
     warned           |-> a.warned,
     classifier_calls |-> a.classifier_calls,
     today_idx        |-> h.today_idx,
     full_text        |-> h.full_text,
     daily_calls      |-> h.daily_calls,
     weekly_idx       |-> h.weekly_idx,
     full_week_text   |-> h.full_week_text,
     weekly_calls     |-> h.weekly_calls,
     summary          |-> h.summary,
     common_words     |-> h.common_words,
     chart            |-> h.chart,
     journal          |-> h.journal,
     mail             |-> h.mail,
     error            |-> IF a.error # "none" THEN a.error ELSE h.error]

\* No run in progress: the page waits for the next interaction.
NoRun ==
    RunRecord("idle", <<>>, 0, FALSE, <<>>,
              [warned |-> FALSE, classifier_calls |-> <<>>, error |-> "none"],
              NoHistory)

\* The script from its first line to its last, or to the uncaught exception
\* that ends it.  The clock is read as one instant for the whole run.
Script(button, user_input, recipient) ==
    /\ run = NoRun
    /\ \E a \in MoodAnalysis(file_exists, mood_log, button = "analyze",
                             user_input, now) :
         \E h \in (IF a.error # "none" THEN {NoHistory}
                   ELSE ShowHistory(a.exists, a.rows, now, button = "email",
                                    recipient)) :
           /\ file_exists' = a.exists
           /\ mood_log' = a.rows
           /\ run' = RunRecord(button, user_input, now, file_exists, mood_log,
                               a, h)
           /\ UNCHANGED now

----------------------------------------------------------------------------
(* Inputs.                                                                 *)

Recipients == {<<>>, Text(<<"r">>)}

\* n copies of a word, separated by single spaces
Words(n, word) ==
    [k \in 1..(2 * n - 1) |-> IF k % 2 = 1 THEN word ELSE <<" ">>]

\* Texts that exercise the input check and the stored text column.
StoreTexts ==
    {<<>>, Text(<<" ", "\n">>), Text(<<"0", "7">>), Text(<<"N", "A">>),
     Text(<<"h", "i">>)}

\* Texts around the summary gate and beyond the character caps: one word,
\* 50 words, 51 words of 20 characters.
SummaryTexts ==
    {Text(<<"h", "i">>),
     Words(MinWords, <<"a">>),
     Words(MinWords + 1, <<"a", "b", "c", "d", "e", "f", "g", "h", "i", "j",
                           "k", "l", "a", "b", "c", "d", "e", "f", "g", "h">>)}

\* Texts for the word list: mixed case and punctuation, no word at all,
\* and more than ten distinct words with ties across the cut.
WordTexts ==
    {Text(<<"T", "h", "e", " ", "c", "a", "t", " ", "s", "a", "t", ".", " ",
            "T", "h", "e", " ", "c", "a", "t", " ", "r", "a", "n", ".">>),
     Text(<<".">>),
     Text(<<"a", " ", "b", " ", "c", " ", "d", " ", "e", " ", "f", " ", "g",
            " ", "h", " ", "i", " ", "j", " ", "k", " ", "l", " ", "b">>),
     Text(<<"l", " ", "l", " ", "k", ",", "j", " ", "i", " ", "h", " ", "g",
            " ", "f", " ", "e", " ", "d", " ", "c", " ", "b", " ", "a", " ",
            "A">>)}

----------------------------------------------------------------------------
(* Actions.                                                                *)

\* The "Analyze My Mood" button, with a text in the text area.
AnalyzeMyMood(texts) ==
    /\ Len(mood_log) < MaxLog
    /\ \E user_input \in texts : Script("analyze", user_input, <<>>)

\* Any other interaction that re-executes the script: opening the page,
\* editing the text, a download button, "Speak Instead".
Rerun == Script("none", <<>>, <<>>)

\* The "Send Email" button of the email form.
SendEmail == \E recipient \in Recipients : Script("email", <<>>, recipient)

\* The run is over: its locals are gone, the page waits.
EndOfRun ==
    /\ run # NoRun
    /\ run' = NoRun
    /\ UNCHANGED <<file_exists, mood_log, now>>

\* Time passes between two executions: a moment of the same day, a week,
\* or a week and a day.
AdvanceClock ==
    /\ run = NoRun
    /\ \E dt \in {1, Timedelta(WeekDays), Timedelta(WeekDays + 1)} :
        /\ dt = 1 => Strftime(now + 1) = Strftime(now)
        /\ now + dt < Timedelta(MaxDay + 1)
        /\ now' = now + dt
        /\ UNCHANGED <<file_exists, mood_log, run>>

\* No log file yet, no run yet.
Init ==
    /\ file_exists = FALSE
    /\ mood_log = <<>>
    /\ now = 0
    /\ run = NoRun

Next ==
    \/ AnalyzeMyMood(StoreTexts)
    \/ Rerun
    \/ SendEmail
    \/ EndOfRun
    \/ AdvanceClock

Spec == Init /\ [][Next]_vars

NextSummary ==
    \/ AnalyzeMyMood(SummaryTexts)
    \/ Rerun
    \/ SendEmail
    \/ EndOfRun
    \/ AdvanceClock

SpecSummary == Init /\ [][NextSummary]_vars

NextWords ==
    \/ AnalyzeMyMood(WordTexts)
    \/ Rerun
    \/ SendEmail
    \/ EndOfRun
    \/ AdvanceClock

SpecWords == Init /\ [][NextWords]_vars

----------------------------------------------------------------------------
(* Properties.  A state with run # NoRun is the state a run has just left: *)
(* mood_log and file_exists are the file after the run, run.rows_before    *)
(* and run.exists_before the file before it.                               *)

\* s is a prefix of t
IsPrefix(s, t) == Len(s) <= Len(t) /\ SubSeq(t, 1, Len(s)) = s

\* The text holds a character that is not whitespace.
HasNonSpace(text) == \E k \in 1..Len(text) : ChunkClass(text[k]) # "space"

\* Every classifier call of the run returned, the emotion call included.
Classified ==
    /\ Len(run.classifier_calls) = 2
    /\ \A k \in 1..2 : run.classifier_calls[k].ok

\* Some classifier call of the run raised.
ClassifierFailed ==
    \E k \in 1..Len(run.classifier_calls) : ~run.classifier_calls[k].ok

\* C1: the persisted log only grows at its end: across every step the log
\* before is a prefix of the log after, and the file, once there, stays.
C1_AppendOnly ==
    [][/\ IsPrefix(mood_log, mood_log')
       /\ (file_exists => file_exists')]_vars

\* C2: an analyze action on a text with a non-whitespace character, whose
\* classification succeeds, leaves the log one row longer; the new last row
\* holds the input verbatim and the current date.
C2_AnalyzeAppendsOne ==
    (run.button = "analyze" /\ HasNonSpace(run.user_input) /\ Classified)
    => /\ file_exists
       /\ Len(mood_log) = Len(run.rows_before) + 1
       /\ mood_log[Len(mood_log)].text = run.user_input
       /\ mood_log[Len(mood_log)].date = run.t \div TicksPerDay

\* C2 reached: a second entry was appended to an existing log.
C2_Witness ==
    /\ run.button = "analyze"
    /\ HasNonSpace(run.user_input)
    /\ Classified
    /\ Len(run.rows_before) >= 1
    /\ Len(mood_log) = 2

\* C3: an analyze action on an empty or whitespace-only text leaves the
\* file exactly as it was (present or absent), calls no classifier and
\* reports the rejection.
C3_BlankInputRejected ==
    (run.button = "analyze" /\ ~HasNonSpace(run.user_input))
    => /\ mood_log = run.rows_before
       /\ file_exists = run.exists_before
       /\ run.classifier_calls = <<>>
       /\ run.warned

\* C3 reached: a whitespace-only text was rejected while no file existed.
C3_Witness ==
    /\ run.button = "analyze"
    /\ run.user_input # <<>>
    /\ ~HasNonSpace(run.user_input)
    /\ run.warned
    /\ ~file_exists

\* C4: an analyze action in which a classifier call raised leaves the file
\* exactly as it was.
C4_ClassifierFailurePersistsNothing ==
    (run.button = "analyze" /\ ClassifierFailed)
    => /\ mood_log = run.rows_before
       /\ file_exists = run.exists_before

\* C4 reached: the emotion call raised after the sentiment call returned,
\* on a log that already held a row.
C4_Witness ==
    /\ run.button = "analyze"
    /\ Len(run.classifier_calls) = 2
    /\ run.classifier_calls[1].ok
    /\ ~run.classifier_calls[2].ok
    /\ Len(mood_log) = 1

\* C5: the weekly window of a run at date d is exactly the stored rows
\* dated d-7 to d, in order, whatever the time of day.
C5_WeeklyWindow ==
    IsSome(run.weekly_idx)
    => LET d == run.t \div TicksPerDay
       IN  Get(run.weekly_idx) =
             SelectSeq([i \in 1..Len(mood_log) |-> i],
                       LAMBDA i : /\ mood_log[i].date >= d - WeekDays
                                  /\ mood_log[i].date <= d)

\* The marker a journal without a summary would carry.
NoSummaryMarker == "no summary"

\* C6: when the weekly text was joined and has at most 50 words, the
\* journal is composed and its summary section holds the marker.
C6_JournalWithoutSummary ==
    (IsSome(run.full_week_text) /\ SplitLen(Get(run.full_week_text)) <= MinWords)
    => /\ IsSome(run.journal)
       /\ Get(run.journal).summary = NoSummaryMarker

\* A summarizer call of the run raised.
SummarizerFailed ==
    \/ \E k \in 1..Len(run.daily_calls) : run.daily_calls[k].outcome = SummarizerRaise
    \/ \E k \in 1..Len(run.weekly_calls) : run.weekly_calls[k].outcome = SummarizerRaise

\* C7: a run in which a summarizer call raised still produces the word
\* list, the weekly chart and the journal.
C7_SummaryFailureIsolated ==
    SummarizerFailed
    => /\ IsSome(run.common_words)
       /\ run.chart
       /\ IsSome(run.journal)

\* The calls are what the gate prescribes for the joined text: none under
\* 51 words, otherwise one, on the first `cap` characters of the text.
GateRespected(text, calls, cap) ==
    IF SplitLen(text) < MinWords + 1 THEN calls = <<>>
    ELSE /\ Len(calls) = 1
         /\ LET input == calls[1].input
                last  == Len(input)
            IN  /\ StrLen(input) = (IF StrLen(text) < cap THEN StrLen(text) ELSE cap)
                /\ last >= 1
                /\ last <= Len(text)
                /\ SubSeq(input, 1, last - 1) = SubSeq(text, 1, last - 1)
                /\ IsPrefix(input[last], text[last])

\* C8: for the daily and for the weekly text, once joined: under 51 words
\* the summarizer is not called; from 51 words on it is called once, on the
\* first 1024 (daily) or 2048 (weekly) characters of the text.  A section
\* that joined no text made no call.
C8_SummaryGate ==
    /\ IF IsSome(run.full_text)
       THEN GateRespected(Get(run.full_text), run.daily_calls, DailyMaxChars)
       ELSE run.daily_calls = <<>>
    /\ IF IsSome(run.full_week_text)
       THEN GateRespected(Get(run.full_week_text), run.weekly_calls, WeeklyMaxChars)
       ELSE run.weekly_calls = <<>>

\* C8 reached: both texts exceeded their caps and both calls were made on
\* the truncated text.
C8_Witness ==
    /\ IsSome(run.full_text)
    /\ IsSome(run.full_week_text)
    /\ StrLen(Get(run.full_text)) > DailyMaxChars
    /\ StrLen(Get(run.full_week_text)) > WeeklyMaxChars
    /\ Len(run.daily_calls) = 1
    /\ Len(run.weekly_calls) = 1
    /\ StrLen(run.weekly_calls[1].input) = WeeklyMaxChars

\* The list is the first (at most TopN) of the text's lower-cased words,
\* ranked by count, highest first, equal counts by first appearance.
IsTopWords(list, text) ==
    LET toks == FindAllWords(Lower(text))
        seen == {toks[k] : k \in 1..Len(toks)}
        Count(w) == Cardinality({k \in 1..Len(toks) : toks[k] = w})
        First(w) == CHOOSE k \in 1..Len(toks) :
                      /\ toks[k] = w
                      /\ \A j \in 1..(k - 1) : toks[j] # w
        Ahead(w, v) == \/ Count(w) > Count(v)
                       \/ (Count(w) = Count(v) /\ First(w) < First(v))
        listed == {list[r][1] : r \in 1..Len(list)}
    IN  /\ Len(list) = (IF Cardinality(seen) < TopN THEN Cardinality(seen) ELSE TopN)
        /\ \A r \in 1..Len(list) :
              /\ list[r][1] \in seen
              /\ list[r][2] = Count(list[r][1])
        /\ \A r, q \in 1..Len(list) : r < q => Ahead(list[r][1], list[q][1])
        /\ \A w \in seen \ listed : \A r \in 1..Len(list) : Ahead(list[r][1], w)

\* C9: the word list of a run is the top 10 of the weekly text's
\* lower-cased words by count, ties by first appearance, also at the cut.
C9_TopWords ==
    IsSome(run.common_words)
    => IsTopWords(Get(run.common_words), Get(run.full_week_text))

\* C9 reached: more than ten distinct words, and a word left out has the
\* count of the last word listed.
C9_Witness ==
    /\ IsSome(run.common_words)
    /\ Len(Get(run.common_words)) = TopN
    /\ LET toks == FindAllWords(Lower(Get(run.full_week_text)))
           list == Get(run.common_words)
       IN  \E k \in 1..Len(toks) :
              /\ \A r \in 1..TopN : list[r][1] # toks[k]
              /\ Cardinality({j \in 1..Len(toks) : toks[j] = toks[k]}) = list[TopN][2]

\* C10: in one run, the rows of today are rows of the weekly window; a
\* daily summary is followed by a weekly summarizer call once the weekly
\* text is joined; and a composed journal holds the outcome of the weekly
\* call of that run.
C10_JournalHoldsWeeklySummary ==
    /\ (IsSome(run.today_idx) /\ IsSome(run.weekly_idx))
       => \A k \in 1..Len(Get(run.today_idx)) :
             \E j \in 1..Len(Get(run.weekly_idx)) :
                Get(run.weekly_idx)[j] = Get(run.today_idx)[k]
    /\ (run.daily_calls # <<>> /\ IsSome(run.full_week_text))
       => run.weekly_calls # <<>>
    /\ IsSome(run.journal)
       => /\ Len(run.weekly_calls) = 1
          /\ run.weekly_calls[1].outcome \in Summaries
          /\ Get(run.journal).summary = run.weekly_calls[1].outcome

\* C10 reached: the daily and the weekly call returned different
\* summaries, and the journal was composed.
C10_Witness ==
    /\ IsSome(run.journal)
    /\ Len(run.daily_calls) = 1
    /\ Len(run.weekly_calls) = 1
    /\ run.daily_calls[1].outcome # run.weekly_calls[1].outcome

====
